---- MODULE Spec2Model ----
(***************************************************************************)
(* Model of src/ai-models/train_threat_detector.py: the synthetic-data     *)
(* generator, the preprocessor, the trainer's candidate selection, the     *)
(* evaluator's per-class loop and the persister of ThreatDetectionTrainer. *)
(*                                                                         *)
(* Units.  Python floats are modelled as scaled integers:                  *)
(*   np.random.random(), mev_potential, honeypot_score, network_congestion,*)
(*   address_reputation : hundredths (0.7 is 70)                           *)
(*   slippage_tolerance : tenths (0.1 is 1, 50 is 500)                     *)
(*   gas_price, value, time_between_txs : whole units                      *)
(*   approval_amount : [d, e] meaning d * 10^e with d in 1..9, since the   *)
(*   range 10^4 .. 10^30 does not fit one scaled integer                   *)
(***************************************************************************)
EXTENDS Integers, Sequences, FiniteSets, TLC

VARIABLES
    sample,        \* generate_threat_pattern: the dict passed in (mutated in place)
    raw,           \* generate_threat_pattern: the caller's copy of the dict before the call
    ret,           \* generate_threat_pattern: the returned label, "none" before the call
    draw,          \* generate_threat_pattern: the value np.random.random() returned, -1 before
    pc,            \* position of the caller (main, or a client of the trainer)
    exc,           \* the exception the last call raised, "None" if none
    calls,         \* the calls made on the trainer so far, each with its outcome
    csv,           \* contents of {data_path}/synthetic_threat_data.csv
    n_samples,     \* generate_synthetic_data: its argument
    i,             \* generate_synthetic_data: the loop counter
    data,          \* generate_synthetic_data: the list of sample dicts
    df,            \* main: the table returned by load_data
    X,             \* main: the scaled feature matrix returned by preprocess_data
    y,             \* main: the encoded labels returned by preprocess_data
    feature_names, \* main: the feature_columns list returned by preprocess_data
    scaler,        \* trainer.scaler
    label_encoder, \* trainer.label_encoder
    model,         \* trainer.model
    scores,        \* train_model: the held-out accuracy printed for each candidate
    held,          \* train_model: the y_test and y_pred it returns
    class_acc,     \* evaluate_model: the per-class accuracies it prints
    files,         \* the artifacts under model_path
    warnings       \* the warnings printed by save_model

genVars == <<csv, n_samples, i, data, df>>
patVars == <<sample, raw, ret, draw>>
prepVars == <<X, y, feature_names, scaler, label_encoder>>
trainVars == <<model, scores, held>>
saveVars == <<files, warnings>>

vars == <<sample, raw, ret, draw, pc, exc, calls, csv, n_samples, i, data, df,
          X, y, feature_names, scaler, label_encoder, model, scores, held,
          class_acc, files, warnings>>

None == "None"

\* Python's None where an object is expected, and a file that does not exist.
NoneObj == [kind |-> "None"]
Absent == [kind |-> "absent"]

(***************************************************************************)
(* __init__: the closed list of threat categories.                         *)
(***************************************************************************)
threat_categories ==
    << "safe", "phishing", "rug_pull", "flash_loan_attack",
       "smart_contract_exploit", "sandwich_attack", "front_running",
       "back_running" >>

Range(s) == { s[k] : k \in DOMAIN s }

(***************************************************************************)
(* approval_amount arithmetic on [d, e] = d * 10^e.                        *)
(***************************************************************************)
Amount(d, e) == [d |-> d, e |-> e]

AmountGt(a, b) == a.e > b.e \/ (a.e = b.e /\ a.d > b.d)

\* np.random.uniform(10**18, 10**30) for a unit draw u in hundredths:
\* 10^18 + u/100 * (10^30 - 10^18), whose leading digit and exponent are
\* those of u * 10^28 for u > 0.
UniformAmount(u) ==
    IF u = 0 THEN Amount(1, 18)
    ELSE IF u < 10 THEN Amount(u, 28)
    ELSE Amount(u \div 10, 29)

\* np.random.uniform(low, high) for a unit draw u in hundredths.
Uniform(low, high, u) == low + ((high - low) * u) \div 100

(***************************************************************************)
(* The keys of the sample dict, in insertion order (lines 61-82), and the  *)
(* key added by generate_synthetic_data (line 86).                         *)
(***************************************************************************)
SampleKeys ==
    << "tx_id", "gas_limit", "gas_price", "value", "data_length",
       "to_address_age", "from_address_age", "transaction_count",
       "unique_addresses", "time_between_txs", "contract_creation",
       "token_transfer", "dex_interaction", "approval_amount",
       "slippage_tolerance", "mev_potential", "network_congestion",
       "address_reputation", "contract_verified", "honeypot_score" >>

(***************************************************************************)
(* The predicates of generate_threat_pattern, in source order.             *)
(***************************************************************************)
SafeDraw(r) == r < 70

IsPhishing_AgeBelowOne(s) ==
    /\ AmountGt(s.approval_amount, Amount(1, 4))
    /\ s.to_address_age < 1
    /\ s.contract_verified = 0

IsPhishing(s) ==
    /\ AmountGt(s.approval_amount, Amount(1, 4))
    /\ s.to_address_age < 7
    /\ s.contract_verified = 0

IsRugPull(s) ==
    /\ s.dex_interaction = 1
    /\ s.value > 10
    /\ s.time_between_txs < 10

IsFlashLoanAttack(s) ==
    /\ s.gas_limit > 300000
    /\ s.data_length > 5000
    /\ s.unique_addresses > 10

IsSmartContractExploit(s) ==
    /\ s.contract_creation = 1
    /\ s.gas_limit > 200000
    /\ s.contract_verified = 0

IsSandwichAttack(s) ==
    /\ s.dex_interaction = 1
    /\ s.mev_potential > 70
    /\ s.gas_price > 50

IsFrontRunning(s) ==
    /\ s.gas_price > 100
    /\ s.mev_potential > 80
    /\ s.time_between_txs < 5

IsBackRunning(s) ==
    /\ s.gas_price < 10
    /\ s.mev_potential > 60
    /\ s.dex_interaction = 1

(***************************************************************************)
(* The field overwrites of each branch.  u1 and u2 are the unit draws of   *)
(* the branch's first and second np.random.uniform call.                   *)
(***************************************************************************)
OverwritePhishing(s, u1, u2) ==
    [s EXCEPT !.approval_amount = UniformAmount(u1),
              !.honeypot_score = Uniform(70, 100, u2)]

OverwriteRugPull(s, u1, u2) ==
    [s EXCEPT !.slippage_tolerance = Uniform(500, 1000, u1),
              !.mev_potential = Uniform(80, 100, u2)]

OverwriteFlashLoan_KeepsTime(s, u1) ==
    [s EXCEPT !.value = Uniform(1000, 100000, u1)]

OverwriteFlashLoan(s, u1) ==
    [s EXCEPT !.value = Uniform(1000, 100000, u1),
              !.time_between_txs = 0]

OverwriteExploit(s, u1) ==
    [s EXCEPT !.honeypot_score = Uniform(60, 90, u1)]

OverwriteSandwich(s, u1) ==
    [s EXCEPT !.slippage_tolerance = Uniform(1, 10, u1)]

\* The ladder of lines 105-155, reached when the safe draw failed.
MatchPattern_FlashLoanFirst(s, u1, u2) ==
    IF IsPhishing(s)
    THEN [label |-> "phishing", sample |-> OverwritePhishing(s, u1, u2)]
    ELSE IF IsFlashLoanAttack(s)
    THEN [label |-> "flash_loan_attack", sample |-> OverwriteFlashLoan(s, u1)]
    ELSE IF IsRugPull(s)
    THEN [label |-> "rug_pull", sample |-> OverwriteRugPull(s, u1, u2)]
    ELSE IF IsSmartContractExploit(s)
    THEN [label |-> "smart_contract_exploit", sample |-> OverwriteExploit(s, u1)]
    ELSE IF IsSandwichAttack(s)
    THEN [label |-> "sandwich_attack", sample |-> OverwriteSandwich(s, u1)]
    ELSE IF IsFrontRunning(s)
    THEN [label |-> "front_running", sample |-> s]
    ELSE IF IsBackRunning(s)
    THEN [label |-> "back_running", sample |-> s]
    ELSE [label |-> "safe", sample |-> s]

MatchPattern(s, u1, u2) ==
    IF IsPhishing(s)
    THEN [label |-> "phishing", sample |-> OverwritePhishing(s, u1, u2)]
    ELSE IF IsRugPull(s)
    THEN [label |-> "rug_pull", sample |-> OverwriteRugPull(s, u1, u2)]
    ELSE IF IsFlashLoanAttack(s)
    THEN [label |-> "flash_loan_attack", sample |-> OverwriteFlashLoan(s, u1)]
    ELSE IF IsSmartContractExploit(s)
    THEN [label |-> "smart_contract_exploit", sample |-> OverwriteExploit(s, u1)]
    ELSE IF IsSandwichAttack(s)
    THEN [label |-> "sandwich_attack", sample |-> OverwriteSandwich(s, u1)]
    ELSE IF IsFrontRunning(s)
    THEN [label |-> "front_running", sample |-> s]
    ELSE IF IsBackRunning(s)
    THEN [label |-> "back_running", sample |-> s]
    ELSE [label |-> "safe", sample |-> s]

\* generate_threat_pattern(sample) with r the value of np.random.random().
generate_threat_pattern(s, r, u1, u2) ==
    IF SafeDraw(r)
    THEN [label |-> "safe", sample |-> s]
    ELSE MatchPattern(s, u1, u2)

(***************************************************************************)
(* Input sets: for each field a few values on both sides of (and on) every *)
(* threshold the predicates test.                                          *)
(***************************************************************************)
RandomDraws == {0, 69, 70, 99}
UnitDraws == {0, 99}

RawSamples ==
    [ tx_id : {"tx_0"},
      gas_limit : {200000, 300000, 400000},
      gas_price : {9, 50, 100, 101},
      value : {10, 11},
      data_length : {5000, 6000},
      to_address_age : {1, 7},
      from_address_age : {100},
      transaction_count : {5},
      unique_addresses : {10, 11},
      time_between_txs : {4, 5, 10},
      contract_creation : {0, 1},
      token_transfer : {0},
      dex_interaction : {0, 1},
      approval_amount : {Amount(1, 4), Amount(2, 4), Amount(1, 25)},
      slippage_tolerance : {50},
      mev_potential : {60, 70, 80, 90},
      network_congestion : {50},
      address_reputation : {50},
      contract_verified : {0, 1},
      honeypot_score : {50} ]

(***************************************************************************)
(* Tables.  A DataFrame is its ordered column list, its rows (each a       *)
(* function from column name to value) and the set of its missing cells    *)
(* <<row index, column>> (NaN).                                            *)
(***************************************************************************)
DataFrame(cols, rows, na) ==
    [kind |-> "DataFrame", columns |-> cols, rows |-> rows, na |-> na]

Contains(seq, v) == \E k \in DOMAIN seq : seq[k] = v

IndexOf(seq, v) == CHOOSE k \in DOMAIN seq : seq[k] = v

\* f'tx_{i}': the decimal digits of i after the prefix.
Digits == << "0", "1", "2", "3", "4", "5", "6", "7", "8", "9" >>

RECURSIVE IntToStr(_)
IntToStr(n) ==
    IF n < 10 THEN Digits[n + 1]
    ELSE IntToStr(n \div 10) \o Digits[(n % 10) + 1]

TxId_Constant(k) == "tx_0"

TxId(k) == "tx_" \o IntToStr(k)

\* sample['threat_type'] = threat_type
WithThreatType(s, label) ==
    [k \in DOMAIN s \cup {"threat_type"} |->
        IF k = "threat_type" THEN label ELSE s[k]]

\* pd.DataFrame(data): the columns are the dict keys in insertion order; an
\* empty list gives a table without columns.
DataFrameOf(d) ==
    IF d = << >> THEN DataFrame(<< >>, << >>, {})
    ELSE DataFrame(SampleKeys \o << "threat_type" >>, d, {})

(***************************************************************************)
(* The state of the trainer after __init__ and of the model directory.     *)
(***************************************************************************)
UnfittedScaler == [kind |-> "StandardScaler", fitted |-> FALSE]
UnfittedEncoder == [kind |-> "LabelEncoder", fitted |-> FALSE]

NoFiles ==
    [ model_joblib |-> Absent, scaler_joblib |-> Absent,
      label_encoder_joblib |-> Absent, onnx |-> Absent,
      metadata |-> Absent, feature_importance_png |-> FALSE,
      confusion_matrix_png |-> FALSE ]

NoHeld == [y_test |-> << >>, y_pred |-> << >>]

TrainerInit ==
    /\ scaler = UnfittedScaler
    /\ label_encoder = UnfittedEncoder
    /\ model = NoneObj
    /\ X = NoneObj
    /\ y = << >>
    /\ feature_names = << >>
    /\ scores = << >>
    /\ held = NoHeld
    /\ class_acc = << >>
    /\ files = NoFiles
    /\ warnings = << >>
    /\ exc = None
    /\ calls = << >>

NoGeneration ==
    /\ csv = NoneObj
    /\ n_samples = 0
    /\ i = 0
    /\ data = << >>
    /\ df = NoneObj

NoPattern ==
    /\ sample = NoneObj
    /\ raw = NoneObj
    /\ ret = "none"
    /\ draw = -1

(***************************************************************************)
(* preprocess_data.                                                        *)
(***************************************************************************)
\* [col for col in df.columns if col not in ['tx_id', 'threat_type']]
IsFeature_KeepsLabel(c) == c # "tx_id"

IsFeature(c) == c \notin {"tx_id", "threat_type"}

FeatureColumns(d) == SelectSeq(d.columns, IsFeature)

\* The non-missing values of column c, as a sequence in row order.
Present(d, c) ==
    LET idx == { k \in DOMAIN d.rows : <<k, c>> \notin d.na }
        F[n \in Nat] ==
            IF n = 0 THEN << >>
            ELSE IF n \in idx THEN Append(F[n - 1], d.rows[n][c])
            ELSE F[n - 1]
    IN F[Len(d.rows)]

\* The k-th smallest element of a sequence of integers.
KthSmallest(vals, k) ==
    CHOOSE v \in Range(vals) :
        /\ Cardinality({ j \in DOMAIN vals : vals[j] < v }) < k
        /\ Cardinality({ j \in DOMAIN vals : vals[j] <= v }) >= k

\* Series.median() of a non-empty sequence: the middle value, or the mean of
\* the two middle values.
Median(vals) ==
    LET n == Len(vals) IN
    IF n % 2 = 1 THEN KthSmallest(vals, (n + 1) \div 2)
    ELSE (KthSmallest(vals, n \div 2) + KthSmallest(vals, n \div 2 + 1)) \div 2

\* X.fillna(X.median()): every missing cell of a column that has a value is
\* filled with the column's median; a column without any value stays missing.
FillNa(d, cols) ==
    LET fillable(c) == \E k \in DOMAIN d.rows : <<k, c>> \notin d.na
        rows == [ k \in DOMAIN d.rows |->
                    [ c \in Range(cols) |->
                        IF <<k, c>> \in d.na /\ fillable(c)
                        THEN Median(Present(d, c))
                        ELSE d.rows[k][c] ] ]
        na == { cell \in d.na : cell[2] \in Range(cols) /\ ~fillable(cell[2]) }
    IN DataFrame(cols, rows, na)

\* The statistics StandardScaler.fit computes for one column, kept as the
\* bag of the column's non-missing values (mean_ and var_ are functions of it).
ColumnStats(d, c) ==
    LET vals == Present(d, c) IN
    [ v \in Range(vals) |-> Cardinality({ k \in DOMAIN vals : vals[k] = v }) ]

\* StandardScaler().fit(X) on a DataFrame with string column names.
FitScaler(d) ==
    [ kind |-> "StandardScaler", fitted |-> TRUE,
      feature_names_in_ |-> d.columns,
      n_samples_seen_ |-> Len(d.rows),
      stats |-> [ c \in Range(d.columns) |-> ColumnStats(d, c) ] ]

\* The distinct labels in sorted (alphabetical) order, as np.unique returns them.
AlphabeticalLabels ==
    << "back_running", "flash_loan_attack", "front_running", "phishing",
       "rug_pull", "safe", "sandwich_attack", "smart_contract_exploit" >>

SortedUnique(labels) ==
    LET present(c) == c \in labels IN SelectSeq(AlphabeticalLabels, present)

FitEncoder(labels) ==
    [ kind |-> "LabelEncoder", fitted |-> TRUE,
      classes_ |-> SortedUnique(Range(labels)) ]

\* LabelEncoder.transform: the 0-based position of each label in classes_.
Encode(enc, labels) ==
    [ k \in DOMAIN labels |-> IndexOf(enc.classes_, labels[k]) - 1 ]

\* preprocess_data scaling with a scaler of its own instead of self.scaler.
preprocess_data_LocalScaler(d, sc, enc) ==
    LET cols == FeatureColumns(d)
        filled == FillNa(d, cols)
        labels == [ k \in DOMAIN d.rows |-> d.rows[k]["threat_type"] ]
        newsc == FitScaler(filled)
        newenc == FitEncoder(labels)
    IN
    IF ~Contains(d.columns, "threat_type")
    THEN [ exc |-> "KeyError", scaler |-> sc, label_encoder |-> enc,
           X |-> NoneObj, y |-> << >>, feature_columns |-> << >> ]
    ELSE IF Len(d.rows) = 0 \/ cols = << >>
    THEN [ exc |-> "ValueError", scaler |-> sc, label_encoder |-> enc,
           X |-> NoneObj, y |-> << >>, feature_columns |-> << >> ]
    ELSE [ exc |-> None, scaler |-> sc, label_encoder |-> newenc,
           X |-> [ kind |-> "DataFrame", columns |-> cols,
                   rows |-> filled.rows, na |-> filled.na,
                   scaled_by |-> newsc ],
           y |-> Encode(newenc, labels), feature_columns |-> cols ]

\* preprocess_data(df): the exception raised ("None" if it returns), the
\* trainer's transforms afterwards and the returned triple.
preprocess_data(d, sc, enc) ==
    LET cols == FeatureColumns(d)
        filled == FillNa(d, cols)
        labels == [ k \in DOMAIN d.rows |-> d.rows[k]["threat_type"] ]
        newsc == FitScaler(filled)
        newenc == FitEncoder(labels)
    IN
    IF ~Contains(d.columns, "threat_type")
    THEN \* line 178: df['threat_type'] raises
         [ exc |-> "KeyError", scaler |-> sc, label_encoder |-> enc,
           X |-> NoneObj, y |-> << >>, feature_columns |-> << >> ]
    ELSE IF Len(d.rows) = 0 \/ cols = << >>
    THEN \* line 184: fit rejects a matrix without rows or columns and leaves
         \* the scaler without fitted statistics; the encoder is not reached
         [ exc |-> "ValueError", scaler |-> UnfittedScaler, label_encoder |-> enc,
           X |-> NoneObj, y |-> << >>, feature_columns |-> << >> ]
    ELSE [ exc |-> None, scaler |-> newsc, label_encoder |-> newenc,
           X |-> [ kind |-> "DataFrame", columns |-> cols,
                   rows |-> filled.rows, na |-> filled.na,
                   scaled_by |-> newsc ],
           y |-> Encode(newenc, labels), feature_columns |-> cols ]

(***************************************************************************)
(* train_model.                                                            *)
(***************************************************************************)
\* The candidates of the models dict, in insertion order (lines 208-220).
CandidateNames == << "RandomForest", "GradientBoosting" >>

CandidateKind(name) ==
    IF name = "RandomForest" THEN "RandomForestClassifier"
    ELSE "GradientBoostingClassifier"

\* A candidate after model.fit(X_train, y_train), X_train being split from Xm.
Fitted(name, Xm) ==
    [ kind |-> CandidateKind(name), feature_names_in_ |-> Xm.columns,
      fit_on |-> Xm ]

\* ceil(0.2 * n): the size of the held-out split.
TestSize(n) == (2 * n + 9) \div 10

\* The elements of seq at the positions in idx, in increasing position order.
Take(seq, idx) ==
    LET F[n \in Nat] ==
            IF n = 0 THEN << >>
            ELSE IF n \in idx THEN Append(F[n - 1], seq[n])
            ELSE F[n - 1]
    IN F[Len(seq)]

Correct(yt, yp) == Cardinality({ k \in DOMAIN yt : yt[k] = yp[k] })

\* accuracy_score(y_true, y_pred) as the fraction num / den.
AccuracyScore(yt, yp) == [num |-> Correct(yt, yp), den |-> Len(yt)]

\* a > b on fractions with positive denominators.
Greater(a, b) == a.num * b.den > b.num * a.den

NoBest == [best_model |-> NoneObj, best_score |-> [num |-> 0, den |-> 1],
           best_name |-> ""]

\* The selection loop of lines 226-239 from candidate k on.  cands[k] holds
\* the fitted candidate and its held-out accuracy.
RECURSIVE SelectionLoop(_, _, _)
SelectionLoop(cands, k, best) ==
    IF k > Len(cands) THEN best
    ELSE SelectionLoop(cands, k + 1,
            IF Greater(cands[k].accuracy, best.best_score)
            THEN [ best_model |-> cands[k].model,
                   best_score |-> cands[k].accuracy,
                   best_name |-> cands[k].name ]
            ELSE best)

\* train_model(X, y).  train_test_split, fit and classification_report are
\* library calls: each either raises on an input it rejects or returns, and
\* a fitted candidate may predict any class it saw in training.
TrainModel(after) ==
    LET n == Len(y)
        n_test == TestSize(n)
    IN
    \/ /\ X.kind # "None"
       /\ n - n_test > 0
       /\ \E T \in SUBSET (1 .. n) :
            /\ Cardinality(T) = n_test
            /\ LET y_test == Take(y, T)
                   seen == { y[k] : k \in (1 .. n) \ T }
               IN
               \E preds \in [DOMAIN CandidateNames -> [1 .. n_test -> seen]] :
                  LET cands == [ k \in DOMAIN CandidateNames |->
                                   [ name |-> CandidateNames[k],
                                     model |-> Fitted(CandidateNames[k], X),
                                     y_pred |-> preds[k],
                                     accuracy |-> AccuracyScore(y_test, preds[k]) ] ]
                      best == SelectionLoop(cands, 1, NoBest)
                      y_pred == preds[IndexOf(CandidateNames, best.best_name)]
                  IN
                  /\ scores' = [ k \in DOMAIN cands |->
                                   [ name |-> cands[k].name,
                                     kind |-> cands[k].model.kind,
                                     accuracy |-> cands[k].accuracy ] ]
                  /\ model' = best.best_model
                  /\ \/ \* lines 245-254: the report, the plot and the return
                        /\ best.best_model # NoneObj
                        /\ exc' = None
                        /\ held' = [y_test |-> y_test, y_pred |-> y_pred]
                        /\ files' = [files EXCEPT !.feature_importance_png = TRUE]
                     \/ \* line 245: self.model is None
                        /\ best.best_model = NoneObj
                        /\ exc' = "AttributeError"
                        /\ UNCHANGED <<held, files>>
                     \/ \* line 247: classification_report rejects the labels
                        /\ best.best_model # NoneObj
                        /\ exc' = "ValueError"
                        /\ UNCHANGED <<held, files>>
                  /\ calls' = Append(calls, [op |-> "train_model", exc |-> exc',
                                             assigned |-> TRUE])
                  /\ pc' = after[IF exc' = None THEN "ok" ELSE "raised"]
    \/ \* the split or a fit raises: self.model is not assigned
       /\ exc' = "ValueError"
       /\ calls' = Append(calls, [op |-> "train_model", exc |-> "ValueError",
                                  assigned |-> FALSE])
       /\ pc' = after["raised"]
       /\ UNCHANGED <<model, scores, held, files>>

(***************************************************************************)
(* evaluate_model: the per-class loop of lines 328-332.                    *)
(***************************************************************************)
\* class_mask = y_test == i, as the set of positions it selects.
ClassMask(yt, c) == { k \in DOMAIN yt : yt[k] = c }

ClassGuard_Always(yt, c) == TRUE

\* np.sum(class_mask) > 0
ClassGuard(yt, c) == Cardinality(ClassMask(yt, c)) > 0

\* The lines printed by the loop from class index c on: for each class that
\* passes the guard, its name and accuracy_score over its samples.
RECURSIVE ClassLoop(_, _, _, _)
ClassLoop(classes, yt, yp, c) ==
    IF c >= Len(classes) THEN << >>
    ELSE LET mask == ClassMask(yt, c)
             line == [ threat_class |-> classes[c + 1],
                       accuracy |-> AccuracyScore(Take(yt, mask), Take(yp, mask)) ]
         IN (IF ClassGuard(yt, c) THEN << line >> ELSE << >>)
            \o ClassLoop(classes, yt, yp, c + 1)

EvaluateModel(after) ==
    /\ class_acc' = ClassLoop(label_encoder.classes_, held.y_test, held.y_pred, 0)
    /\ files' = [files EXCEPT !.confusion_matrix_png = TRUE]
    /\ exc' = None
    /\ calls' = Append(calls, [op |-> "evaluate_model", exc |-> None])
    /\ pc' = after["ok"]

(***************************************************************************)
(* save_model.                                                             *)
(***************************************************************************)
\* The steps of the guarded ONNX export, in order; "none" is no failure.
ExportSteps == << "input_type", "convert", "open", "write", "none" >>

\* The step at which the trainer's state makes the export fail: without
\* feature_names_in_ the input type cannot be built, and None cannot be
\* converted.
ForcedFailure(m, sc) ==
    IF ~sc.fitted THEN "input_type"
    ELSE IF m = NoneObj THEN "convert"
    ELSE "none"

\* The .onnx file after an export that failed at step `fail`.
OnnxAfter(old, m, fail) ==
    IF fail = "none" THEN [kind |-> "onnx", model |-> m]
    ELSE IF fail = "write" THEN [kind |-> "partial"]
    ELSE old

TypeName(m) == IF m = NoneObj THEN "NoneType" ELSE m.kind

Reverse(seq) == [ k \in DOMAIN seq |-> seq[Len(seq) + 1 - k] ]

Metadata_NamesReversed(m, sc, enc) ==
    [ kind |-> "metadata",
      model_type |-> TypeName(m),
      feature_names |-> Reverse(sc.feature_names_in_),
      threat_categories |-> enc.classes_,
      training_date |-> "now",
      model_version |-> "1.0.0" ]

Metadata(m, sc, enc) ==
    [ kind |-> "metadata",
      model_type |-> TypeName(m),
      feature_names |-> sc.feature_names_in_,
      threat_categories |-> enc.classes_,
      training_date |-> "now",
      model_version |-> "1.0.0" ]

\* save_model with an export failing at `fail`, the exception propagating
\* instead of being caught.
save_model_ExportPropagates(f, w, m, sc, enc, fail) ==
    LET dumped == [f EXCEPT !.model_joblib = m, !.scaler_joblib = sc,
                            !.label_encoder_joblib = enc,
                            !.onnx = OnnxAfter(f.onnx, m, fail)]
    IN
    IF fail # "none" \/ ~sc.fitted \/ ~enc.fitted
    THEN [files |-> dumped, warnings |-> w, exc |-> "Exception"]
    ELSE [ files |-> [dumped EXCEPT !.metadata = Metadata(m, sc, enc)],
           warnings |-> w, exc |-> None ]

\* save_model with the export failing at step `fail` ("none": it succeeds).
save_model(f, w, m, sc, enc, fail) ==
    LET dumped == [f EXCEPT !.model_joblib = m, !.scaler_joblib = sc,
                            !.label_encoder_joblib = enc,
                            !.onnx = OnnxAfter(f.onnx, m, fail)]
        warned == IF fail = "none" THEN w
                  ELSE Append(w, "Could not save ONNX model")
    IN
    IF ~sc.fitted \/ ~enc.fitted
    THEN \* lines 295-296: no feature_names_in_ or classes_ to read
         [files |-> dumped, warnings |-> warned, exc |-> "AttributeError"]
    ELSE [ files |-> [dumped EXCEPT !.metadata = Metadata(m, sc, enc)],
           warnings |-> warned, exc |-> None ]

SaveModel(after) ==
    \E fail \in Range(ExportSteps) :
       /\ IndexOf(ExportSteps, fail)
             <= IndexOf(ExportSteps, ForcedFailure(model, scaler))
       /\ LET res == save_model(files, warnings, model, scaler, label_encoder, fail)
          IN /\ files' = res.files
             /\ warnings' = res.warnings
             /\ exc' = res.exc
             /\ calls' = Append(calls, [op |-> "save_model", exc |-> res.exc,
                                        export |-> fail])
             /\ pc' = after[IF res.exc = None THEN "ok" ELSE "raised"]

\* preprocess_data(d) called on the trainer, its results bound by the caller
\* (X, y, feature_names = trainer.preprocess_data(df)) when it returns.
PreprocessData(d, after) ==
    LET res == preprocess_data(d, scaler, label_encoder) IN
    /\ scaler' = res.scaler
    /\ label_encoder' = res.label_encoder
    /\ exc' = res.exc
    /\ IF res.exc = None
       THEN /\ X' = res.X
            /\ y' = res.y
            /\ feature_names' = res.feature_columns
       ELSE UNCHANGED <<X, y, feature_names>>
    /\ calls' = Append(calls, [op |-> "preprocess_data", exc |-> res.exc,
                               label_encoder |-> res.label_encoder])
    /\ pc' = after[IF res.exc = None THEN "ok" ELSE "raised"]

(***************************************************************************)
(* SpecPattern: one call of generate_threat_pattern on an arbitrary raw    *)
(* record.                                                                 *)
(***************************************************************************)
InitPattern ==
    /\ sample \in RawSamples
    /\ raw = sample
    /\ ret = "none"
    /\ draw = -1
    /\ pc = "pattern"
    /\ NoGeneration
    /\ TrainerInit

CallGenerateThreatPattern ==
    /\ ret = "none"
    /\ \E r \in RandomDraws, u1 \in UnitDraws, u2 \in UnitDraws :
          LET res == generate_threat_pattern(sample, r, u1, u2) IN
          /\ sample' = res.sample
          /\ ret' = res.label
          /\ draw' = r
    /\ UNCHANGED <<raw, pc, exc, calls, genVars, prepVars, trainVars,
                   class_acc, saveVars>>

NextPattern == CallGenerateThreatPattern

SpecPattern == InitPattern /\ [][NextPattern]_vars

(***************************************************************************)
(* Bounds and input tables.                                                *)
(***************************************************************************)
MaxSamples == 2
MaxCsvRows == 3
MaxCalls == 4
MaxClasses == 3
MaxTest == 2

\* Raw records drawn by the generator loop: one matching no predicate, one
\* matching phishing, one matching both rug_pull and flash_loan_attack.
BaseSample ==
    [ tx_id |-> "tx_0", gas_limit |-> 200000, gas_price |-> 50, value |-> 10,
      data_length |-> 5000, to_address_age |-> 7, from_address_age |-> 100,
      transaction_count |-> 5, unique_addresses |-> 10,
      time_between_txs |-> 10, contract_creation |-> 0, token_transfer |-> 0,
      dex_interaction |-> 0, approval_amount |-> Amount(1, 4),
      slippage_tolerance |-> 50, mev_potential |-> 60,
      network_congestion |-> 50, address_reputation |-> 50,
      contract_verified |-> 1, honeypot_score |-> 50 ]

GenSamples ==
    { BaseSample,
      [BaseSample EXCEPT !.approval_amount = Amount(1, 25),
                         !.to_address_age = 1, !.contract_verified = 0],
      [BaseSample EXCEPT !.dex_interaction = 1, !.value = 11,
                         !.time_between_txs = 4, !.gas_limit = 400000,
                         !.data_length = 6000, !.unique_addresses = 11] }

\* Tables a CSV file at the data path may hold: several column orders, with
\* and without the identifier and label columns, column "a" possibly
\* missing (a = 0 below stands for an empty cell).
CsvLayouts ==
    { << "tx_id", "a", "b", "threat_type" >>, << "b", "threat_type", "a" >>,
      << "tx_id", "a" >>, << "tx_id", "threat_type" >> }

CsvChoices == [a : {0, 2, 4}, label : {"safe", "phishing"}]

CsvRow(layout, k, ch) ==
    [ c \in Range(layout) |->
        CASE c = "tx_id" -> TxId(k - 1)
          [] c = "a" -> ch.a
          [] c = "b" -> 6
          [] c = "threat_type" -> ch.label ]

CsvTables ==
    { DataFrame(layout,
                [ k \in DOMAIN chs |-> CsvRow(layout, k, chs[k]) ],
                { <<k, "a">> : k \in { j \in DOMAIN chs :
                                         chs[j].a = 0 /\ Contains(layout, "a") } }) :
        layout \in CsvLayouts,
        chs \in UNION { [1 .. n -> CsvChoices] : n \in 0 .. MaxCsvRows } }

\* Tables a client passes to preprocess_data: two complete rows, the first
\* one fixed.
CallTables ==
    { d \in CsvTables :
        /\ Len(d.rows) = 2
        /\ d.na = {}
        /\ Contains(d.columns, "a")
        /\ d.rows[1]["a"] = 2
        /\ Contains(d.columns, "threat_type") => d.rows[1]["threat_type"] = "safe" }

(***************************************************************************)
(* SpecMain: main().  The process ends at "done", or at "raised" when an   *)
(* exception propagates out of main.                                       *)
(***************************************************************************)
Then(next) == [ok |-> next, raised |-> "raised"]

InitMain ==
    /\ pc = "load"
    /\ csv \in {NoneObj} \cup CsvTables
    /\ n_samples \in (IF csv = NoneObj THEN 0 .. MaxSamples ELSE {0})
    /\ i = 0
    /\ data = << >>
    /\ df = NoneObj
    /\ NoPattern
    /\ TrainerInit

\* load_data(): reads the CSV file when it exists, else generates.
LoadData ==
    /\ pc = "load"
    /\ IF csv = NoneObj
       THEN /\ pc' = "generate"
            /\ UNCHANGED df
       ELSE /\ df' = csv
            /\ pc' = "preprocess"
    /\ UNCHANGED <<patVars, exc, calls, csv, n_samples, i, data, prepVars,
                   trainVars, class_acc, saveVars>>

\* One iteration of the loop of generate_synthetic_data (lines 59-88).
GenerateSample ==
    /\ pc = "generate"
    /\ i < n_samples
    /\ \E s \in GenSamples, r \in RandomDraws, u1 \in UnitDraws, u2 \in UnitDraws :
          LET res == generate_threat_pattern([s EXCEPT !.tx_id = TxId(i)], r, u1, u2)
          IN data' = Append(data, WithThreatType(res.sample, res.label))
    /\ i' = i + 1
    /\ UNCHANGED <<patVars, pc, exc, calls, csv, n_samples, df, prepVars,
                   trainVars, class_acc, saveVars>>

\* Lines 90-96: the table is built, written to the CSV file and returned.
GenerateFinish ==
    /\ pc = "generate"
    /\ i = n_samples
    /\ df' = DataFrameOf(data)
    /\ csv' = df'
    /\ pc' = "preprocess"
    /\ UNCHANGED <<patVars, exc, calls, n_samples, i, data, prepVars,
                   trainVars, class_acc, saveVars>>

MainPreprocess ==
    /\ pc = "preprocess"
    /\ PreprocessData(df, Then("train"))
    /\ UNCHANGED <<patVars, genVars, trainVars, class_acc, saveVars>>

MainTrain ==
    /\ pc = "train"
    /\ TrainModel(Then("evaluate"))
    /\ UNCHANGED <<patVars, genVars, prepVars, class_acc, warnings>>

MainEvaluate ==
    /\ pc = "evaluate"
    /\ EvaluateModel(Then("save"))
    /\ UNCHANGED <<patVars, genVars, prepVars, trainVars, warnings>>

MainSave ==
    /\ pc = "save"
    /\ SaveModel(Then("done"))
    /\ UNCHANGED <<patVars, genVars, prepVars, trainVars, class_acc>>

NextMain ==
    \/ LoadData
    \/ GenerateSample
    \/ GenerateFinish
    \/ MainPreprocess
    \/ MainTrain
    \/ MainEvaluate
    \/ MainSave

SpecMain == InitMain /\ [][NextMain]_vars

(***************************************************************************)
(* SpecCalls: a client calling preprocess_data, train_model and save_model *)
(* on one trainer in any order, catching what they raise.                  *)
(***************************************************************************)
Back == [ok |-> "client", raised |-> "client"]

InitCalls ==
    /\ pc = "client"
    /\ NoGeneration
    /\ NoPattern
    /\ TrainerInit

ClientPreprocess ==
    /\ pc = "client"
    /\ Len(calls) < MaxCalls
    /\ \E d \in CallTables : PreprocessData(d, Back)
    /\ UNCHANGED <<patVars, genVars, trainVars, class_acc, saveVars>>

ClientTrain ==
    /\ pc = "client"
    /\ Len(calls) < MaxCalls
    /\ TrainModel(Back)
    /\ UNCHANGED <<patVars, genVars, prepVars, class_acc, warnings>>

ClientSave ==
    /\ pc = "client"
    /\ Len(calls) < MaxCalls
    /\ SaveModel(Back)
    /\ UNCHANGED <<patVars, genVars, prepVars, trainVars, class_acc>>

NextCalls ==
    \/ ClientPreprocess
    \/ ClientTrain
    \/ ClientSave

SpecCalls == InitCalls /\ [][NextCalls]_vars

(***************************************************************************)
(* SpecEval: one call of evaluate_model on arbitrary held-out labels and   *)
(* predictions over the classes of a fitted label encoder.                 *)
(***************************************************************************)
EvalLabels == { threat_categories[k] : k \in 1 .. MaxClasses }

InitEval ==
    /\ pc = "evaluate"
    /\ NoGeneration
    /\ NoPattern
    /\ scaler = UnfittedScaler
    /\ \E S \in SUBSET EvalLabels :
          /\ S # {}
          /\ label_encoder = [ kind |-> "LabelEncoder", fitted |-> TRUE,
                               classes_ |-> SortedUnique(S) ]
    /\ \E n \in 1 .. MaxTest :
          held \in [ y_test : [1 .. n -> 0 .. Len(label_encoder.classes_) - 1],
                     y_pred : [1 .. n -> 0 .. Len(label_encoder.classes_) - 1] ]
    /\ model = NoneObj
    /\ X = NoneObj
    /\ y = << >>
    /\ feature_names = << >>
    /\ scores = << >>
    /\ class_acc = << >>
    /\ files = NoFiles
    /\ warnings = << >>
    /\ exc = None
    /\ calls = << >>

CallEvaluate ==
    /\ pc = "evaluate"
    /\ EvaluateModel(Then("returned"))
    /\ UNCHANGED <<patVars, genVars, prepVars, trainVars, warnings>>

NextEval == CallEvaluate

SpecEval == InitEval /\ [][NextEval]_vars

(***************************************************************************)
(* Claims about generate_threat_pattern (checked under SpecPattern).       *)
(***************************************************************************)
C1_Record ==
    /\ raw.approval_amount = Amount(1, 25)
    /\ raw.to_address_age = 1
    /\ raw.contract_verified = 0

\* C1 (as stated): a record with approval_amount = 10^25, to_address_age = 1
\* and contract_verified = 0 is labeled 'phishing' whatever the random draws.
C1_AlwaysPhishing ==
    (ret # "none" /\ C1_Record) => ret = "phishing"

\* C1 (amended): such a record is labeled 'phishing' whenever the initial
\* safe draw fails (np.random.random() >= 0.7); when the draw is below 0.7
\* the record is labeled 'safe'.
C1_PhishingUnlessSafeDraw ==
    (ret # "none" /\ C1_Record) =>
        /\ draw >= 70 => ret = "phishing"
        /\ draw < 70 => ret = "safe"

C1_Witness ==
    /\ C1_Record
    /\ draw >= 70
    /\ ret = "phishing"

C3_Order ==
    << "phishing", "rug_pull", "flash_loan_attack", "smart_contract_exploit",
       "sandwich_attack", "front_running", "back_running" >>

C3_Holds(label, s) ==
    CASE label = "phishing" -> IsPhishing(s)
      [] label = "rug_pull" -> IsRugPull(s)
      [] label = "flash_loan_attack" -> IsFlashLoanAttack(s)
      [] label = "smart_contract_exploit" -> IsSmartContractExploit(s)
      [] label = "sandwich_attack" -> IsSandwichAttack(s)
      [] label = "front_running" -> IsFrontRunning(s)
      [] label = "back_running" -> IsBackRunning(s)

C3_Matching == { k \in DOMAIN C3_Order : C3_Holds(C3_Order[k], raw) }

\* C3: when the safe draw fails, the label is that of the first predicate,
\* in the priority order, that holds on the raw record, and 'safe' if none
\* holds; a record matching rug_pull and flash_loan_attack but not phishing
\* receives 'rug_pull'.
C3_FirstMatchWins ==
    (ret # "none" /\ draw >= 70) =>
        /\ C3_Matching = {} => ret = "safe"
        /\ C3_Matching # {} =>
              ret = C3_Order[CHOOSE k \in C3_Matching :
                                \A j \in C3_Matching : k <= j]
        /\ (IsRugPull(raw) /\ IsFlashLoanAttack(raw) /\ ~IsPhishing(raw))
              => ret = "rug_pull"

C3_Witness ==
    /\ draw >= 70
    /\ IsRugPull(raw) /\ IsFlashLoanAttack(raw) /\ ~IsPhishing(raw)
    /\ ret = "rug_pull"

C10_Changed == { k \in Range(SampleKeys) : sample[k] # raw[k] }

\* C10: a call returning 'safe', 'front_running' or 'back_running' leaves
\* the record unchanged; every other branch changes only its own fields,
\* and flash_loan_attack sets time_between_txs to 0.
C10_FrameEffects ==
    ret # "none" =>
        /\ ret \in {"safe", "front_running", "back_running"} => sample = raw
        /\ ret = "phishing" =>
              C10_Changed \subseteq {"approval_amount", "honeypot_score"}
        /\ ret = "rug_pull" =>
              C10_Changed \subseteq {"slippage_tolerance", "mev_potential"}
        /\ ret = "flash_loan_attack" =>
              /\ C10_Changed \subseteq {"value", "time_between_txs"}
              /\ sample.time_between_txs = 0
        /\ ret = "smart_contract_exploit" =>
              C10_Changed \subseteq {"honeypot_score"}
        /\ ret = "sandwich_attack" =>
              C10_Changed \subseteq {"slippage_tolerance"}

C10_Witness ==
    /\ ret = "flash_loan_attack"
    /\ raw.time_between_txs # 0
    /\ sample.time_between_txs = 0
    /\ sample.value # raw.value

(***************************************************************************)
(* Claims about main's pipeline (checked under SpecMain).                  *)
(***************************************************************************)
Last(seq) == seq[Len(seq)]

\* df is the table generate_synthetic_data returned.
Generated ==
    /\ pc \notin {"load", "generate"}
    /\ df = DataFrameOf(data)

PreprocessReturned ==
    /\ calls # << >>
    /\ calls[1].op = "preprocess_data"
    /\ calls[1].exc = None

\* C2 (as stated): on a generated table preprocess_data returns a matrix of
\* exactly 18 columns without missing values and an 18-entry column list.
C2_EighteenColumns ==
    (Generated /\ PreprocessReturned) =>
        /\ Len(X.columns) = 18
        /\ X.na = {}
        /\ Len(feature_names) = 18

C2_GeneratedFeatures ==
    SelectSeq(SampleKeys \o << "threat_type" >>,
              LAMBDA c : c # "tx_id" /\ c # "threat_type")

\* C2 (amended): on a table generated with n >= 1 preprocess_data returns a
\* matrix of exactly 19 columns, every generated column except the
\* identifier and the label, without missing values, and a 19-entry list.
C2_NineteenColumns ==
    (Generated /\ n_samples >= 1 /\ calls # << >>) =>
        /\ PreprocessReturned
        /\ Len(X.columns) = 19
        /\ X.columns = C2_GeneratedFeatures
        /\ \A k \in DOMAIN X.rows : DOMAIN X.rows[k] = Range(X.columns)
        /\ Len(X.rows) = n_samples
        /\ X.na = {}
        /\ feature_names = X.columns

C2_Witness ==
    /\ Generated
    /\ n_samples >= 2
    /\ PreprocessReturned
    /\ Len(X.columns) = 19
    /\ \E k \in DOMAIN df.rows : df.rows[k]["threat_type"] # "safe"

\* C4: generate_synthetic_data(n) returns exactly n records, each with one
\* threat_type among the eight categories; record i has identifier 'tx_i'
\* and the identifiers are pairwise distinct.
C4_Records ==
    Generated =>
        /\ Len(df.rows) = n_samples
        /\ \A k \in DOMAIN df.rows :
              /\ "threat_type" \in DOMAIN df.rows[k]
              /\ df.rows[k]["threat_type"] \in
                    { "safe", "phishing", "rug_pull", "flash_loan_attack",
                      "smart_contract_exploit", "sandwich_attack",
                      "front_running", "back_running" }
              /\ df.rows[k]["tx_id"] = "tx_" \o Digits[k]
        /\ \A j, k \in DOMAIN df.rows :
              j # k => df.rows[j]["tx_id"] # df.rows[k]["tx_id"]

C4_Witness ==
    /\ Generated
    /\ n_samples >= 2
    /\ df.rows[1]["threat_type"] = "rug_pull"
    /\ df.rows[2]["threat_type"] = "phishing"

\* The selection loop of train_model has run.
C5_Selected == Len(scores) = 2

\* C5: after the selection loop self.model is the candidate with the higher
\* held-out accuracy, RandomForest on a tie, for all accuracies including
\* both being 0; it is always one of the two fitted candidates.
C5_BestRetained ==
    C5_Selected =>
        LET a_rf == scores[1].accuracy
            a_gb == scores[2].accuracy
        IN model.kind = IF a_gb.num * a_rf.den > a_rf.num * a_gb.den
                        THEN "GradientBoostingClassifier"
                        ELSE "RandomForestClassifier"

\* The same rule outside the case of both accuracies being 0 (holds).
C5_BestRetainedUnlessBothZero ==
    (C5_Selected /\ (scores[1].accuracy.num > 0 \/ scores[2].accuracy.num > 0))
        => C5_BestRetained

C6_ExportFailed ==
    /\ calls # << >>
    /\ Last(calls).op = "save_model"
    /\ Last(calls).export # "none"

C8_FeatureOrder ==
    pc = "done" =>
        /\ files.metadata.feature_names =
              SelectSeq(df.columns, LAMBDA c : c # "tx_id" /\ c # "threat_type")
        /\ files.metadata.feature_names = files.scaler_joblib.feature_names_in_
        /\ files.metadata.feature_names = X.columns
        /\ files.metadata.feature_names = files.model_joblib.feature_names_in_
        /\ files.model_joblib.fit_on = X

C8_Witness ==
    /\ pc = "done"
    /\ df.columns = << "b", "threat_type", "a" >>
    /\ files.metadata.feature_names = << "b", "a" >>

(***************************************************************************)
(* Claim about call sequences on one trainer (checked under SpecCalls).    *)
(***************************************************************************)
\* The largest element of a set of call positions, 0 if it is empty.
MaxOf(S) == IF S = {} THEN 0 ELSE CHOOSE k \in S : \A j \in S : j <= k

\* A preprocess_data call that returned (it refit both transforms), and a
\* train_model call that assigned self.model.
C7_IsFit(c) == c.op = "preprocess_data" /\ c.exc = None

C7_IsTrain(c) == c.op = "train_model" /\ c.assigned

C7_LastFit == MaxOf({ k \in DOMAIN calls : C7_IsFit(calls[k]) })

C7_LastTrain == MaxOf({ k \in DOMAIN calls : C7_IsTrain(calls[k]) })

\* The last preprocess_data call that returned before the train_model call
\* that assigned the current self.model: its output is what was trained on.
C7_TrainedFit ==
    MaxOf({ k \in 1 .. C7_LastTrain : C7_IsFit(calls[k]) })

\* save_model has just persisted a trained model.
C7_Saved ==
    /\ calls # << >>
    /\ Last(calls).op = "save_model"
    /\ model # NoneObj

\* The persisted transforms are those under which the persisted model was
\* trained.
C7_SameTransforms ==
    /\ files.model_joblib = model
    /\ files.scaler_joblib = model.fit_on.scaled_by
    /\ files.label_encoder_joblib = calls[C7_TrainedFit].label_encoder
    /\ files.metadata.kind = "metadata"
    /\ files.metadata.feature_names = model.fit_on.scaled_by.feature_names_in_
    /\ files.metadata.threat_categories =
          calls[C7_TrainedFit].label_encoder.classes_

C9_Count(c) == Cardinality({ k \in DOMAIN held.y_test : held.y_test[k] = c })

C9_Hits(c) ==
    Cardinality({ k \in DOMAIN held.y_test :
                    held.y_test[k] = c /\ held.y_pred[k] = c })

C9_Lines(c) ==
    { k \in DOMAIN class_acc :
        class_acc[k].threat_class = label_encoder.classes_[c + 1] }

\* C9: for every label index of the encoder the per-class accuracy is
\* computed only when some held-out sample has that true label, and is
\* then (correct among them) / (their number); a label without held-out
\* samples is skipped, and nothing divides by zero or raises.
C9_PerClassAccuracy ==
    pc = "returned" =>
        /\ exc = None
        /\ \A k \in DOMAIN class_acc : class_acc[k].accuracy.den > 0
        /\ \A c \in 0 .. Len(label_encoder.classes_) - 1 :
              /\ C9_Count(c) = 0 => C9_Lines(c) = {}
              /\ C9_Count(c) > 0 =>
                    /\ Cardinality(C9_Lines(c)) = 1
                    /\ \A k \in C9_Lines(c) :
                          /\ class_acc[k].accuracy.num = C9_Hits(c)
                          /\ class_acc[k].accuracy.den = C9_Count(c)

C9_Witness ==
    /\ pc = "returned"
    /\ \E c \in 0 .. Len(label_encoder.classes_) - 1 : C9_Count(c) = 0
    /\ \E k \in DOMAIN class_acc :
          /\ class_acc[k].accuracy.num = 1
          /\ class_acc[k].accuracy.den = 2

====
